---- MODULE Spec2Model ----
(***************************************************************************)
(* Model of the multi-provider market-data client of crypto-chroma        *)
(* (src/src/services/cryptoApi.ts): the three provider adapters, the      *)
(* shared provider-health record of CryptoApiService and tryWithFallback. *)
(*                                                                         *)
(* JavaScript runs one turn at a time, so every action below is one turn: *)
(* the code between two awaits of one tryWithFallback call.  Several      *)
(* calls may be in flight at once (the Dashboard starts one               *)
(* getPriceHistory per selected asset and awaits them with Promise.all);  *)
(* their turns interleave, and they share failedProviders and             *)
(* lastResetTime.                                                         *)
(***************************************************************************)
EXTENDS Integers, Sequences, FiniteSets, TLC

\* ------------------------------------------------------------------ bounds
\* Date.now() reads one of the instants Instant(0) .. Instant(MaxInstant).
MaxInstant == 5

\* A price series has at most MaxPoints entries, a chart at most MaxPoints rows.
MaxPoints == 2

\* ------------------------------------------------------- program constants
RetryDelayMs == 100
MockDelayMs == 500
ResetIntervalMs == 5 * 60 * 1000

\* A plausible slip: the mock provider is listed before CryptoCompare.
providersMockSecond == <<"CoinGecko", "CoinMarketCap", "CryptoCompare">>

\* The provider list of CryptoApiService, in its fixed priority order.
providers == <<"CoinGecko", "CryptoCompare", "CoinMarketCap">>

ProviderNames == {providers[k] : k \in 1..Len(providers)}

Operations == {"getTopCryptos", "searchCryptos", "getPriceHistory", "getAssetsByIds"}

\* The id lists getAssetsByIds is called with.
IdLists == {<<>>, <<"bitcoin">>}

\* The calls a client of the service makes: an operation and, for
\* getAssetsByIds, its id list.
Requests ==
    {[op |-> o, ids |-> <<>>] : o \in Operations \ {"getAssetsByIds"}}
        \cup {[op |-> "getAssetsByIds", ids |-> i] : i \in IdLists}

\* The concurrent tryWithFallback calls (two promises in flight at once).
Calls == {"a", "b"}

\* ------------------------------------------------------------------- clock
\* Date.now() is an input: its readings are drawn from these instants (ms),
\* three per reset interval.  Offsets 0 and 1 straddle the strict comparison
\* of resetFailedProviders, RetryDelayMs lets a retry delay elapse inside an
\* interval.
Offsets == <<0, 1, RetryDelayMs>>

Instant(k) == (k \div Len(Offsets)) * ResetIntervalMs + Offsets[(k % Len(Offsets)) + 1]

Instants == {Instant(k) : k \in 0..MaxInstant}

Max(S) == CHOOSE x \in S : \A y \in S : y <= x

\* The last instant of the model.  It stands for every later instant too:
\* a timer set at MaxTime is due at MaxTime, and no call starts there.
MaxTime == Max(Instants)

Min2(x, y) == IF x <= y THEN x ELSE y

Range(s) == {s[k] : k \in 1..Len(s)}

\* No timer pending, no flag set: a value no clock reading takes.
NoTime == 0 - 1

\* ------------------------------------------------------------- the adapters
\* What one call of a provider method can do: "ok" (the promise resolves),
\* "throw" (it rejects).  A method that fetches can do either (transport
\* error, non-ok status); a method without a fetch does one thing only.
CoinGeckoOutcomes(o, i) ==
    IF o = "getAssetsByIds" /\ Len(i) = 0 THEN {"ok"} ELSE {"ok", "throw"}

CoinMarketCapOutcomes(o, i) ==
    IF o = "getTopCryptos" THEN {"ok"} ELSE {"throw"}

CryptoCompareOutcomes(o, i) ==
    IF o \in {"getTopCryptos", "getPriceHistory"} THEN {"ok", "throw"} ELSE {"throw"}

Outcomes(p, o, i) ==
    CASE p = "CoinGecko" -> CoinGeckoOutcomes(o, i)
      [] p = "CryptoCompare" -> CryptoCompareOutcomes(o, i)
      [] p = "CoinMarketCap" -> CoinMarketCapOutcomes(o, i)

\* Whether the provider method issues a fetch (a network request).
Fetches(p, o, i) ==
    CASE p = "CoinGecko" -> ~(o = "getAssetsByIds" /\ Len(i) = 0)
      [] p = "CryptoCompare" -> o \in {"getTopCryptos", "getPriceHistory"}
      [] p = "CoinMarketCap" -> FALSE

\* The value a provider method resolves to: who produced it and, as far as
\* the code fixes it, what it holds (CoinGecko returns [] for no ids; the
\* assets asked for otherwise; the payload of the operation for the rest).
ProviderResult(p, o, i) ==
    [from |-> p, data |-> IF o = "getAssetsByIds" THEN i ELSE <<o>>]

\* The Error a provider method throws: `API error: <status>` after a fetch,
\* `... not implemented` from a method the provider refuses.
ProviderError(p, o, i) ==
    [from |-> p, kind |-> IF Fetches(p, o, i) THEN "ApiError" ELSE "NotImplemented"]

\* How long the provider method waits on a timer of its own before it
\* resolves (CoinMarketCap.getTopCryptos simulates an API delay).
ProviderDelay(p, o) ==
    IF p = "CoinMarketCap" /\ o = "getTopCryptos" THEN MockDelayMs ELSE 0

NoError == [from |-> "none", kind |-> "null"]

NoResult == [from |-> "none", data |-> <<>>]

\* new Error(`All providers failed for ${operationName}`)
GenericError == [from |-> "none", kind |-> "AllProvidersFailed"]

\* ------------------------------------------------------------------- state
VARIABLES
    failedProviders,     \* CryptoApiService.failedProviders (a Set of names)
    lastResetTime,       \* CryptoApiService.lastResetTime
    now,                 \* the reading of Date.now()
    pc,                  \* per call: where its tryWithFallback stands
    request,             \* per call: the operation closure (op and ids)
    availableProviders,  \* per call: the local candidate array
    idx,                 \* per call: position of the for-of loop (1-based)
    lastError,           \* per call: the local lastError
    timerAt,             \* per call: when its pending setTimeout is due
    result,              \* per call: the value the promise resolved to
    thrown,              \* per call: the error the promise rejected with
    flagsAtStart,        \* history: failedProviders when the call began
    alone,               \* history: no other call ran since this one began
    markedAt,            \* history: when each flagged provider was flagged
    args,                \* the arguments of a synchronous function being applied
    out,                 \* the value it returned
    dashboard            \* the Dashboard's state: timeRange, chartData, its loads

vars ==
    <<failedProviders, lastResetTime, now, pc, request, availableProviders, idx,
      lastError, timerAt, result, thrown, flagsAtStart, alone, markedAt, args, out,
      dashboard>>

\* The synchronous functions (getTimeRangeDays, the portfolio calculations)
\* are applied in specifications of their own; the failover client does not
\* touch their arguments or results.
pureVars == <<args, out>>

NoArgs == <<>>

NoOut == <<>>

callVars ==
    <<pc, request, availableProviders, idx, lastError, timerAt, result, thrown,
      flagsAtStart, alone>>

NoRequest == [op |-> "none", ids |-> <<>>]

InFlight(c) == pc[c] \in {"calling", "waiting"}

Done(c) == pc[c] \in {"returned", "thrown"}

\* The provider the call is invoking or has just invoked.
Current(c) == availableProviders[c][idx[c]]

\* The providers the call has invoked so far, in order.
Tried(c) == SubSeq(availableProviders[c], 1, idx[c])

ServiceInit ==
    /\ failedProviders = {}
    /\ now = 0
    /\ lastResetTime = now
    /\ pc = [c \in Calls |-> "idle"]
    /\ request = [c \in Calls |-> NoRequest]
    /\ availableProviders = [c \in Calls |-> <<>>]
    /\ idx = [c \in Calls |-> 0]
    /\ lastError = [c \in Calls |-> NoError]
    /\ timerAt = [c \in Calls |-> NoTime]
    /\ result = [c \in Calls |-> NoResult]
    /\ thrown = [c \in Calls |-> NoError]
    /\ flagsAtStart = [c \in Calls |-> {}]
    /\ alone = [c \in Calls |-> TRUE]
    /\ markedAt = [p \in ProviderNames |-> NoTime]

\* No chart load in the slot; no load started or shown yet.
NoLoad == <<>>

\* The Dashboard's state after its first render: timeRange '7D', chartData
\* [], isLoadingChart false.  load holds, per failover call, the closure of
\* the loadChartData run that awaits it (a sequence of none or one); newest
\* and shown record which run started last and which run's result chartData
\* holds.
DashboardAtMount ==
    [timeRange |-> "7D", chartData |-> <<>>, isLoadingChart |-> FALSE,
     load |-> [c \in Calls |-> NoLoad], newest |-> NoLoad, shown |-> NoLoad]

Init ==
    /\ ServiceInit
    /\ args = NoArgs
    /\ out = NoOut
    /\ dashboard = DashboardAtMount

\* ------------------------------------------------------- CryptoApiService
\* A plausible slip: the reset already happens at exactly 5 minutes.
resetFailedProvidersAtFiveMinutes(failed, last, t) ==
    IF t - last >= ResetIntervalMs
    THEN [failed |-> {}, last |-> t]
    ELSE [failed |-> failed, last |-> last]

\* A plausible slip: the timer is restarted and the flags are kept.
resetFailedProvidersKeepsFlags(failed, last, t) ==
    IF t - last > ResetIntervalMs
    THEN [failed |-> failed, last |-> t]
    ELSE [failed |-> failed, last |-> last]

\* resetFailedProviders: the flags and timestamp it leaves, read at time t.
resetFailedProviders(failed, last, t) ==
    IF t - last > ResetIntervalMs
    THEN [failed |-> {}, last |-> t]
    ELSE [failed |-> failed, last |-> last]

\* A plausible slip: the test of the filter is inverted.
FilterAvailableInverted(failed) == SelectSeq(providers, LAMBDA p : p \in failed)

\* A plausible slip: the filter keeps every provider.
FilterAvailableAll(failed) == providers

\* this.providers.filter(p => !this.failedProviders.has(p.name))
FilterAvailable(failed) == SelectSeq(providers, LAMBDA p : p \notin failed)

\* A plausible slip: no fallback to the full list.
CandidatesNoFallback(failed) == FilterAvailable(failed)

\* The candidate array after the all-failed fallback.
Candidates(failed) ==
    IF Len(FilterAvailable(failed)) = 0 THEN providers ELSE FilterAvailable(failed)

\* A plausible slip: the fallback forgives the first provider only.
FlagsAfterFallbackFirstOnly(failed) ==
    IF Len(FilterAvailable(failed)) = 0 THEN failed \ {providers[1]} ELSE failed

\* A plausible slip: the fallback uses the full list and keeps the flags.
FlagsAfterFallbackKept(failed) == failed

\* The flags after the all-failed fallback (failedProviders.clear()).
FlagsAfterFallback(failed) ==
    IF Len(FilterAvailable(failed)) = 0 THEN {} ELSE failed

\* The timer a provider method sets when it is invoked at time t.
InvokeTimer(p, o, t) ==
    IF ProviderDelay(p, o) > 0 THEN Min2(t + ProviderDelay(p, o), MaxTime) ELSE NoTime

\* A plausible slip: the set is replaced by the provider that failed last.
MarkFailedOnly(failed, p) == {p}

\* A plausible slip: the catch block records the error and forgets the flag.
MarkFailedDropped(failed, p) == failed

\* this.failedProviders.add(provider.name)
MarkFailed(failed, p) == failed \cup {p}

\* A plausible slip: the loop goes on without waiting.
RetryTimerNoDelay(t) == t

\* The timer of `await new Promise(resolve => setTimeout(resolve, 100))`,
\* set at time t.
RetryTimer(t) == Min2(t + RetryDelayMs, MaxTime)

\* A plausible slip: the generic error is thrown whatever was recorded.
ThrownErrorGeneric(e) == GenericError

\* The error tryWithFallback throws after the loop.
ThrownError(e) == IF e # NoError THEN e ELSE GenericError

\* A client calls one of the four entry points: tryWithFallback runs up to
\* its first await, the invocation of the first candidate.  With no candidate
\* the loop body never runs and the call throws at once.
StartCall(c, r) ==
    /\ pc[c] = "idle"
    /\ now < MaxTime
    /\ LET h == resetFailedProviders(failedProviders, lastResetTime, now)
           cands == Candidates(h.failed)
           flags == FlagsAfterFallback(h.failed)
       IN /\ failedProviders' = flags
          /\ lastResetTime' = h.last
          /\ availableProviders' = [availableProviders EXCEPT ![c] = cands]
          /\ markedAt' = [p \in ProviderNames |->
                            IF p \in flags THEN markedAt[p] ELSE NoTime]
          /\ IF Len(cands) > 0
             THEN /\ pc' = [pc EXCEPT ![c] = "calling"]
                  /\ idx' = [idx EXCEPT ![c] = 1]
                  /\ timerAt' = [timerAt EXCEPT ![c] = InvokeTimer(cands[1], r.op, now)]
                  /\ UNCHANGED thrown
             ELSE /\ pc' = [pc EXCEPT ![c] = "thrown"]
                  /\ thrown' = [thrown EXCEPT ![c] = ThrownError(NoError)]
                  /\ UNCHANGED <<idx, timerAt>>
    /\ request' = [request EXCEPT ![c] = r]
    /\ lastError' = [lastError EXCEPT ![c] = NoError]
    /\ flagsAtStart' = [flagsAtStart EXCEPT ![c] = failedProviders]
    /\ alone' = [d \in Calls |->
                    IF d = c THEN \A e \in Calls \ {c} : ~InFlight(e)
                    ELSE IF pc[d] = "idle" THEN alone[d] ELSE FALSE]
    /\ UNCHANGED <<now, result>>
    /\ UNCHANGED pureVars

\* A call by a client other than the Dashboard's chart load.
Start(c, r) ==
    /\ StartCall(c, r)
    /\ UNCHANGED dashboard

\* A plausible slip: a success declares every provider healthy again.
ProviderReturnsClearsFlags(c) ==
    /\ UNCHANGED dashboard
    /\ pc[c] = "calling"
    /\ "ok" \in Outcomes(Current(c), request[c].op, request[c].ids)
    /\ timerAt[c] = NoTime \/ now >= timerAt[c]
    /\ pc' = [pc EXCEPT ![c] = "returned"]
    /\ result' = [result EXCEPT ![c] =
                    ProviderResult(Current(c), request[c].op, request[c].ids)]
    /\ timerAt' = [timerAt EXCEPT ![c] = NoTime]
    /\ failedProviders' = {}
    /\ markedAt' = [p \in ProviderNames |-> NoTime]
    /\ UNCHANGED <<lastResetTime, now, request, availableProviders,
                   idx, lastError, thrown, flagsAtStart, alone>>
    /\ UNCHANGED pureVars

\* `await operation(provider)` resolves: return result.
ProviderReturns(c) ==
    /\ UNCHANGED dashboard
    /\ pc[c] = "calling"
    /\ "ok" \in Outcomes(Current(c), request[c].op, request[c].ids)
    /\ timerAt[c] = NoTime \/ now >= timerAt[c]
    /\ pc' = [pc EXCEPT ![c] = "returned"]
    /\ result' = [result EXCEPT ![c] =
                    ProviderResult(Current(c), request[c].op, request[c].ids)]
    /\ timerAt' = [timerAt EXCEPT ![c] = NoTime]
    /\ UNCHANGED <<failedProviders, lastResetTime, now, request, availableProviders,
                   idx, lastError, thrown, flagsAtStart, alone, markedAt>>
    /\ UNCHANGED pureVars

\* A plausible slip: a failure restarts the 5-minute timer.
ProviderThrowsRestartsTimer(c) ==
    /\ UNCHANGED dashboard
    /\ pc[c] = "calling"
    /\ "throw" \in Outcomes(Current(c), request[c].op, request[c].ids)
    /\ failedProviders' = MarkFailed(failedProviders, Current(c))
    /\ lastResetTime' = now
    /\ lastError' = [lastError EXCEPT ![c] =
                        ProviderError(Current(c), request[c].op, request[c].ids)]
    /\ timerAt' = [timerAt EXCEPT ![c] = RetryTimer(now)]
    /\ pc' = [pc EXCEPT ![c] = "waiting"]
    /\ markedAt' = [markedAt EXCEPT ![Current(c)] = now]
    /\ UNCHANGED <<now, request, availableProviders, idx, result,
                   thrown, flagsAtStart, alone>>
    /\ UNCHANGED pureVars

\* `await operation(provider)` rejects: the catch block up to its await.
ProviderThrows(c) ==
    /\ UNCHANGED dashboard
    /\ pc[c] = "calling"
    /\ "throw" \in Outcomes(Current(c), request[c].op, request[c].ids)
    /\ failedProviders' = MarkFailed(failedProviders, Current(c))
    /\ lastError' = [lastError EXCEPT ![c] =
                        ProviderError(Current(c), request[c].op, request[c].ids)]
    /\ timerAt' = [timerAt EXCEPT ![c] = RetryTimer(now)]
    /\ pc' = [pc EXCEPT ![c] = "waiting"]
    /\ markedAt' = [markedAt EXCEPT ![Current(c)] = now]
    /\ UNCHANGED <<lastResetTime, now, request, availableProviders, idx, result,
                   thrown, flagsAtStart, alone>>
    /\ UNCHANGED pureVars

\* A plausible slip: the loop retries the provider that has just thrown.
DelayElapsedRetries(c) ==
    /\ UNCHANGED dashboard
    /\ pc[c] = "waiting"
    /\ now >= timerAt[c]
    /\ pc' = [pc EXCEPT ![c] = "calling"]
    /\ timerAt' = [timerAt EXCEPT ![c] = InvokeTimer(Current(c), request[c].op, now)]
    /\ UNCHANGED <<failedProviders, lastResetTime, now, request, availableProviders,
                   idx, lastError, result, thrown, flagsAtStart, alone, markedAt>>
    /\ UNCHANGED pureVars

\* The 100 ms timer fires: the loop goes on to the next candidate, or ends
\* and the call throws.
DelayElapsed(c) ==
    /\ UNCHANGED dashboard
    /\ pc[c] = "waiting"
    /\ now >= timerAt[c]
    /\ IF idx[c] < Len(availableProviders[c])
       THEN /\ idx' = [idx EXCEPT ![c] = idx[c] + 1]
            /\ pc' = [pc EXCEPT ![c] = "calling"]
            /\ timerAt' = [timerAt EXCEPT ![c] =
                              InvokeTimer(availableProviders[c][idx[c] + 1],
                                          request[c].op, now)]
            /\ UNCHANGED thrown
       ELSE /\ pc' = [pc EXCEPT ![c] = "thrown"]
            /\ thrown' = [thrown EXCEPT ![c] = ThrownError(lastError[c])]
            /\ timerAt' = [timerAt EXCEPT ![c] = NoTime]
            /\ UNCHANGED idx
    /\ UNCHANGED <<failedProviders, lastResetTime, now, request, availableProviders,
                   lastError, result, flagsAtStart, alone, markedAt>>
    /\ UNCHANGED pureVars

\* The caller consumes the settled promise; the call's locals are gone.
CollectCall(c) ==
    /\ Done(c)
    /\ pc' = [pc EXCEPT ![c] = "idle"]
    /\ request' = [request EXCEPT ![c] = NoRequest]
    /\ availableProviders' = [availableProviders EXCEPT ![c] = <<>>]
    /\ idx' = [idx EXCEPT ![c] = 0]
    /\ lastError' = [lastError EXCEPT ![c] = NoError]
    /\ timerAt' = [timerAt EXCEPT ![c] = NoTime]
    /\ result' = [result EXCEPT ![c] = NoResult]
    /\ thrown' = [thrown EXCEPT ![c] = NoError]
    /\ flagsAtStart' = [flagsAtStart EXCEPT ![c] = {}]
    /\ alone' = [alone EXCEPT ![c] = TRUE]
    /\ UNCHANGED <<failedProviders, lastResetTime, now, markedAt>>
    /\ UNCHANGED pureVars

\* The settled promise of a call by a client other than the chart load.
Collect(c) ==
    /\ CollectCall(c)
    /\ UNCHANGED dashboard

\* Time passes.
Tick ==
    /\ UNCHANGED dashboard
    /\ \E t \in Instants : t > now /\ now' = t
    /\ UNCHANGED <<failedProviders, lastResetTime, markedAt>>
    /\ UNCHANGED callVars
    /\ UNCHANGED pureVars

Next ==
    \/ \E c \in Calls, r \in Requests : Start(c, r)
    \/ \E c \in Calls : ProviderReturns(c)
    \/ \E c \in Calls : ProviderThrows(c)
    \/ \E c \in Calls : DelayElapsed(c)
    \/ \E c \in Calls : Collect(c)
    \/ Tick

Spec == Init /\ [][Next]_vars

\* The code's scheduling: time goes on, and the next turn of a call in flight
\* is taken: a provider call that can settle does settle, a due timer fires.
FairSpec ==
    /\ Spec
    /\ WF_vars(Tick)
    /\ \A c \in Calls : WF_vars(ProviderReturns(c) \/ ProviderThrows(c) \/ DelayElapsed(c))

\* ------------------------------------------------------------- numbers
\* A JavaScript number is modelled as an exact fraction n/d in lowest terms
\* with d > 0 (the rounding of IEEE doubles is not modelled).  What a division
\* by zero produces (Infinity, NaN) is the one value NotFinite, which every
\* operation propagates.
Abs(i) == IF i < 0 THEN 0 - i ELSE i

RECURSIVE GCD(_, _)
GCD(a, b) == IF b = 0 THEN a ELSE GCD(b, a % b)

NotFinite == [n |-> 1, d |-> 0]

IsFinite(x) == x.d # 0

Rat(n, d) ==
    IF d = 0 THEN NotFinite
    ELSE LET g == GCD(Abs(n), Abs(d))
             sgn == IF d < 0 THEN 0 - 1 ELSE 1
         IN [n |-> (sgn * n) \div g, d |-> (sgn * d) \div g]

R(i) == [n |-> i, d |-> 1]

RAdd(x, y) ==
    IF IsFinite(x) /\ IsFinite(y) THEN Rat(x.n * y.d + y.n * x.d, x.d * y.d) ELSE NotFinite

RSub(x, y) ==
    IF IsFinite(x) /\ IsFinite(y) THEN Rat(x.n * y.d - y.n * x.d, x.d * y.d) ELSE NotFinite

RMul(x, y) ==
    IF IsFinite(x) /\ IsFinite(y) THEN Rat(x.n * y.n, x.d * y.d) ELSE NotFinite

RDiv(x, y) ==
    IF IsFinite(x) /\ IsFinite(y) /\ y.n # 0 THEN Rat(x.n * y.d, x.d * y.n) ELSE NotFinite

\* x > y; a comparison with NaN is false.
RGt(x, y) == IsFinite(x) /\ IsFinite(y) /\ x.n * y.d > y.n * x.d

\* The integer square root of a natural number, by bisection.
RECURSIVE ISqrtIn(_, _, _)
ISqrtIn(lo, hi, n) ==
    IF lo >= hi THEN lo
    ELSE LET mid == (lo + hi + 1) \div 2
         IN IF mid * mid <= n THEN ISqrtIn(mid, hi, n) ELSE ISqrtIn(lo, mid - 1, n)

ISqrt(n) == ISqrtIn(0, IF n < 46340 THEN n ELSE 46340, n)

\* Math.sqrt: the exact root of a square; the root of any other number is
\* kept as the irrational it is (its square in the field surd).
Sqrt(x) ==
    IF ~IsFinite(x) \/ x.n < 0 THEN NotFinite
    ELSE IF ISqrt(x.n) * ISqrt(x.n) = x.n /\ ISqrt(x.d) * ISqrt(x.d) = x.d
         THEN [n |-> ISqrt(x.n), d |-> ISqrt(x.d)]
         ELSE [n |-> x.n, d |-> x.d, surd |-> TRUE]

\* The square of a value Math.sqrt returned.
Square(v) == IF "surd" \in DOMAIN v THEN [n |-> v.n, d |-> v.d] ELSE RMul(v, v)

\* ------------------------------------------------- synchronous functions
\* The one argument record of the function being applied.
Arg == args[1]

\* The labels of the TimeRange type, and labels outside it (the type is not
\* checked at run time).
TimeRangeLabels == {"1D", "7D", "30D", "90D", "1Y"}

OtherLabels == {"ALL", ""}

\* A plausible slip: the case for 1Y is missing and falls to the default.
getTimeRangeDaysNoYear(range) ==
    CASE range = "1D" -> 1
      [] range = "7D" -> 7
      [] range = "30D" -> 30
      [] range = "90D" -> 90
      [] OTHER -> 7

\* CryptoApiService.getTimeRangeDays
getTimeRangeDays(range) ==
    CASE range = "1D" -> 1
      [] range = "7D" -> 7
      [] range = "30D" -> 30
      [] range = "90D" -> 90
      [] range = "1Y" -> 365
      [] OTHER -> 7

\* The states of the service between calls: any set of flags, a reset time
\* that construction (0) or a time-based reset (later than one interval,
\* before the last instant) has set, and a clock not behind it.
ServiceAtRest ==
    /\ failedProviders \in SUBSET ProviderNames
    /\ lastResetTime \in {t \in Instants : t = 0 \/ (t > ResetIntervalMs /\ t < MaxTime)}
    /\ now \in {t \in Instants : t >= lastResetTime}
    /\ pc = [c \in Calls |-> "idle"]
    /\ request = [c \in Calls |-> NoRequest]
    /\ availableProviders = [c \in Calls |-> <<>>]
    /\ idx = [c \in Calls |-> 0]
    /\ lastError = [c \in Calls |-> NoError]
    /\ timerAt = [c \in Calls |-> NoTime]
    /\ result = [c \in Calls |-> NoResult]
    /\ thrown = [c \in Calls |-> NoError]
    /\ flagsAtStart = [c \in Calls |-> {}]
    /\ alone = [c \in Calls |-> TRUE]
    /\ markedAt = [p \in ProviderNames |->
                     IF p \in failedProviders THEN lastResetTime ELSE NoTime]

serviceVars ==
    <<failedProviders, lastResetTime, now, pc, request, availableProviders, idx,
      lastError, timerAt, result, thrown, flagsAtStart, alone, markedAt>>

DaysInit ==
    /\ ServiceAtRest
    /\ args \in {<<[fn |-> "getTimeRangeDays", range |-> l]>> :
                    l \in TimeRangeLabels \cup OtherLabels}
    /\ out = NoOut
    /\ dashboard = DashboardAtMount

\* cryptoApi.getTimeRangeDays(range): reads and writes no field of the service.
GetTimeRangeDays ==
    /\ UNCHANGED dashboard
    /\ out = NoOut
    /\ Arg.fn = "getTimeRangeDays"
    /\ out' = <<getTimeRangeDays(Arg.range)>>
    /\ UNCHANGED args
    /\ UNCHANGED serviceVars

DaysNext == GetTimeRangeDays

DaysSpec == DaysInit /\ [][DaysNext]_vars

\* ------------------------------------------------ portfolio calculations
\* The assets the user can select.
Ids == {"bitcoin", "ethereum"}

\* The market data of an asset as the service returned it (a CryptoAsset;
\* the fields the calculations read).
CryptoAsset(id) ==
    [id |-> id,
     current_price |-> IF id = "bitcoin" THEN R(45000) ELSE R(3000),
     price_change_percentage_24h |-> IF id = "bitcoin" THEN R(10) ELSE R(0 - 10)]

\* The selected assets: lists of distinct ids, in the order selected.
Selections ==
    {l \in UNION {[1..k -> Ids] : k \in 0..Cardinality(Ids)} :
        \A i, j \in DOMAIN l : l[i] = l[j] => i = j}

\* The allocations the user set: a percentage for some of the ids.
AllocationRecords == UNION {[S -> {R(50), R(100)}] : S \in SUBSET Ids}

Totals == {R(0), R(10000)}

\* createPortfolioAssets
createPortfolioAssets(assets, allocations, totalPortfolioValue) ==
    [k \in DOMAIN assets |->
        LET asset == assets[k]
            allocation == IF asset.id \in DOMAIN allocations
                          THEN allocations[asset.id] ELSE R(0)
        IN [id |-> asset.id,
            current_price |-> asset.current_price,
            price_change_percentage_24h |-> asset.price_change_percentage_24h,
            allocation |-> allocation,
            value |-> RMul(RDiv(allocation, R(100)), totalPortfolioValue)]]

\* The prices of the rows of a chart.
SeriesPrices == {R(0), R(100), R(110)}

\* The per-asset fields of a chart row: a price for some of the ids.
RowPrices == UNION {[S -> SeriesPrices] : S \in SUBSET Ids}

\* new Date(timestamp).toISOString()
ISOString(timestamp) == <<"iso", timestamp>>

\* A ChartDataPoint: the fixed fields, the per-asset fields (prices) and the
\* optional portfolioValue (a sequence of none or one).
ChartDataPoint(timestamp, prices, portfolioValue) ==
    [timestamp |-> timestamp, date |-> ISOString(timestamp), prices |-> prices,
     portfolioValue |-> portfolioValue]

\* The charts calculatePortfolioMetrics is given: up to MaxPoints rows at
\* timestamps 1, 2, ...
Charts ==
    UNION {{[k \in 1..len |-> ChartDataPoint(k, f[k], <<>>)] : f \in [1..len -> RowPrices]} :
              len \in 0..MaxPoints}

\* An optional parameter is a sequence of none (undefined) or one value.
Undefined == <<>>

\* dataPoint[asset.id] as number || 0
PriceAt(dataPoint, id) ==
    IF id \in DOMAIN dataPoint.prices THEN dataPoint.prices[id] ELSE R(0)

\* if (chartData && chartData.length > 1 && timeRange)
UseHistory(chartData, timeRange) ==
    /\ chartData # Undefined
    /\ Len(chartData[1]) > 1
    /\ timeRange # Undefined

\* A plausible slip: the guard against a zero start price is missing.
StartPriceUsableAlways(startPrice) == TRUE

\* if (startPrice > 0)
StartPriceUsable(startPrice) == RGt(startPrice, R(0))

\* A plausible slip: the allocation is used as the weight, not divided by 100.
WeightUnscaled(asset) == asset.allocation

\* const weight = asset.allocation / 100
Weight(asset) == RDiv(asset.allocation, R(100))

\* A plausible slip: without an end price the asset counts as unchanged.
AssetReturnFlatWithoutEnd(startPrice, endPrice) ==
    IF endPrice = R(0) THEN R(0)
    ELSE RMul(RDiv(RSub(endPrice, startPrice), startPrice), R(100))

\* ((endPrice - startPrice) / startPrice) * 100
AssetReturn(startPrice, endPrice) ==
    RMul(RDiv(RSub(endPrice, startPrice), startPrice), R(100))

\* assets.forEach of the historical branch, from asset k on: acc holds
\* totalWeightedReturn and returns.
RECURSIVE HistoryFrom(_, _, _, _, _)
HistoryFrom(assets, k, firstDataPoint, lastDataPoint, acc) ==
    IF k > Len(assets) THEN acc
    ELSE LET asset == assets[k]
             startPrice == PriceAt(firstDataPoint, asset.id)
             endPrice == PriceAt(lastDataPoint, asset.id)
             assetReturn == AssetReturn(startPrice, endPrice)
         IN HistoryFrom(assets, k + 1, firstDataPoint, lastDataPoint,
                IF StartPriceUsable(startPrice)
                THEN [totalWeightedReturn |->
                          RAdd(acc.totalWeightedReturn, RMul(assetReturn, Weight(asset))),
                      returns |-> Append(acc.returns, assetReturn)]
                ELSE acc)

\* assets.reduce of the 24h branch, from asset k on.
RECURSIVE DayChangeFrom(_, _, _)
DayChangeFrom(assets, k, sum) ==
    IF k > Len(assets) THEN sum
    ELSE DayChangeFrom(assets, k + 1,
            RAdd(sum, RMul(assets[k].price_change_percentage_24h, Weight(assets[k]))))

\* totalWeightedReturn and returns as the two branches leave them.
ReturnsOf(assets, chartData, timeRange) ==
    IF UseHistory(chartData, timeRange)
    THEN HistoryFrom(assets, 1, chartData[1][1], chartData[1][Len(chartData[1])],
                     [totalWeightedReturn |-> R(0), returns |-> <<>>])
    ELSE [totalWeightedReturn |-> DayChangeFrom(assets, 1, R(0)),
          returns |-> [k \in DOMAIN assets |-> assets[k].price_change_percentage_24h]]

\* returns.reduce((sum, ret) => sum + ret, 0), from entry k on.
RECURSIVE SumFrom(_, _, _)
SumFrom(returns, k, sum) ==
    IF k > Len(returns) THEN sum ELSE SumFrom(returns, k + 1, RAdd(sum, returns[k]))

\* returns.reduce((sum, ret) => sum + Math.pow(ret - avgReturn, 2), 0)
RECURSIVE SquaresFrom(_, _, _, _)
SquaresFrom(returns, k, avgReturn, sum) ==
    IF k > Len(returns) THEN sum
    ELSE SquaresFrom(returns, k + 1, avgReturn,
            RAdd(sum, RMul(RSub(returns[k], avgReturn), RSub(returns[k], avgReturn))))

AvgReturn(returns) ==
    IF Len(returns) > 0 THEN RDiv(SumFrom(returns, 1, R(0)), R(Len(returns))) ELSE R(0)

\* A plausible slip: the sample variance (n - 1) in place of the population's.
VarianceOfSample(returns) ==
    IF Len(returns) > 1
    THEN RDiv(SquaresFrom(returns, 1, AvgReturn(returns), R(0)), R(Len(returns) - 1))
    ELSE R(0)

Variance(returns) ==
    IF Len(returns) > 0
    THEN RDiv(SquaresFrom(returns, 1, AvgReturn(returns), R(0)), R(Len(returns)))
    ELSE R(0)

\* A plausible slip: the empty portfolio keeps the total it was given.
EmptyMetricsKeepsTotal(totalPortfolioValue) ==
    [totalValue |-> totalPortfolioValue, totalReturn |-> R(0),
     totalReturnPercentage |-> R(0), volatility |-> R(0)]

\* The result for assets.length === 0.
EmptyMetrics(totalPortfolioValue) ==
    [totalValue |-> R(0), totalReturn |-> R(0),
     totalReturnPercentage |-> R(0), volatility |-> R(0)]

\* A plausible slip: the percentage is not divided by 100.
TotalReturnUnscaled(totalWeightedReturn, totalPortfolioValue) ==
    RMul(totalWeightedReturn, totalPortfolioValue)

\* (totalWeightedReturn / 100) * totalPortfolioValue
TotalReturn(totalWeightedReturn, totalPortfolioValue) ==
    RMul(RDiv(totalWeightedReturn, R(100)), totalPortfolioValue)

\* calculatePortfolioMetrics (portfolioStartValue and portfolioEndValue are
\* written and never read; they are left out).
calculatePortfolioMetrics(assets, totalPortfolioValue, chartData, timeRange) ==
    IF Len(assets) = 0 THEN EmptyMetrics(totalPortfolioValue)
    ELSE LET r == ReturnsOf(assets, chartData, timeRange)
         IN [totalValue |-> totalPortfolioValue,
             totalReturn |-> TotalReturn(r.totalWeightedReturn, totalPortfolioValue),
             totalReturnPercentage |-> r.totalWeightedReturn,
             volatility |-> Sqrt(Variance(r.returns))]

\* The optional chart: undefined, or a chart.
OptionalCharts == {Undefined} \cup {<<ch>> : ch \in Charts}

OptionalTimeRanges == {Undefined, <<"7D">>}

\* The Dashboard's call: the portfolio assets made by createPortfolioAssets
\* for the same total, the chart state and the time range.
MetricsInit ==
    /\ ServiceInit
    /\ \E t \in Totals, l \in Selections, al \in AllocationRecords,
          c \in OptionalCharts, tr \in OptionalTimeRanges :
            args = <<[fn |-> "calculatePortfolioMetrics",
                      assets |-> createPortfolioAssets(
                                     [k \in DOMAIN l |-> CryptoAsset(l[k])], al, t),
                      totalPortfolioValue |-> t, chartData |-> c, timeRange |-> tr]>>
    /\ out = NoOut
    /\ dashboard = DashboardAtMount

CalculatePortfolioMetrics ==
    /\ UNCHANGED dashboard
    /\ out = NoOut
    /\ Arg.fn = "calculatePortfolioMetrics"
    /\ out' = <<calculatePortfolioMetrics(Arg.assets, Arg.totalPortfolioValue,
                                          Arg.chartData, Arg.timeRange)>>
    /\ UNCHANGED args
    /\ UNCHANGED serviceVars

MetricsNext == CalculatePortfolioMetrics

MetricsSpec == MetricsInit /\ [][MetricsNext]_vars

\* ------------------------------------------------------ combineChartData
\* The timestamps of the series (epoch milliseconds; two instants).
Timestamps == {1, 2}

\* The prices of the entries of a series.
EntryPrices == {R(0), R(100)}

\* The entries of a series: [timestamp, price].
Points == {<<ts, p>> : ts \in Timestamps, p \in EntryPrices}

\* The price series a provider returns: up to MaxPoints entries, timestamps
\* not decreasing (a timestamp may repeat).
PriceSeries ==
    {ps \in UNION {[1..len -> Points] : len \in 0..MaxPoints} :
        \A i, j \in DOMAIN ps : i < j => ps[i][1] <= ps[j][1]}

\* A plausible slip: the entries of the series are aligned by position, so the
\* entry found is the first one at or after the timestamp.
FindEntryFromTimestamp(prices, timestamp) ==
    LET found == {k \in DOMAIN prices : prices[k][1] >= timestamp}
    IN IF found = {} THEN 0 ELSE CHOOSE k \in found : \A m \in found : k <= m

\* assetData.prices.find(([ts]) => ts === timestamp): the position of the
\* first entry with the timestamp, 0 for undefined.
FindEntry(prices, timestamp) ==
    LET found == {k \in DOMAIN prices : prices[k][1] = timestamp}
    IN IF found = {} THEN 0 ELSE CHOOSE k \in found : \A m \in found : k <= m

\* portfolioAssets.find(pa => pa.id === id): the position of the first
\* portfolio asset with the id, 0 for undefined.
FindPortfolioAsset(portfolioAssets, id) ==
    LET found == {k \in DOMAIN portfolioAssets : portfolioAssets[k].id = id}
    IN IF found = {} THEN 0 ELSE CHOOSE k \in found : \A m \in found : k <= m

\* A plausible slip: the allocation-weighted price, without the share count.
AssetValueWeightedPrice(price, portfolioAsset) ==
    RMul(price, RDiv(portfolioAsset.allocation, R(100)))

\* priceEntry[1] * weight * portfolioAsset.value / portfolioAsset.current_price
AssetValue(price, portfolioAsset) ==
    RDiv(RMul(RMul(price, RDiv(portfolioAsset.allocation, R(100))), portfolioAsset.value),
         portfolioAsset.current_price)

\* dataPoint[id] = price
SetField(prices, id, price) ==
    [x \in DOMAIN prices \cup {id} |-> IF x = id THEN price ELSE prices[x]]

\* assetsData.forEach for one timestamp, from series k on: acc holds the
\* per-asset fields of the row and the local portfolioValue.
RECURSIVE RowFrom(_, _, _, _, _)
RowFrom(assetsData, k, timestamp, portfolioAssets, acc) ==
    IF k > Len(assetsData) THEN acc
    ELSE LET assetData == assetsData[k]
             e == FindEntry(assetData.prices, timestamp)
             pa == IF portfolioAssets = Undefined THEN 0
                   ELSE FindPortfolioAsset(portfolioAssets[1], assetData.id)
         IN RowFrom(assetsData, k + 1, timestamp, portfolioAssets,
                IF e = 0 THEN acc
                ELSE [prices |-> SetField(acc.prices, assetData.id, assetData.prices[e][2]),
                      portfolioValue |->
                          IF pa # 0 /\ RGt(portfolioAssets[1][pa].allocation, R(0))
                          THEN RAdd(acc.portfolioValue,
                                    AssetValue(assetData.prices[e][2], portfolioAssets[1][pa]))
                          ELSE acc.portfolioValue])

\* if (portfolioAssets && portfolioValue > 0) dataPoint.portfolioValue = ...
PortfolioValueField(portfolioAssets, portfolioValue) ==
    IF portfolioAssets # Undefined /\ RGt(portfolioValue, R(0))
    THEN <<portfolioValue>> ELSE <<>>

\* The row combineChartData makes for one timestamp.
RowAt(assetsData, timestamp, portfolioAssets) ==
    LET r == RowFrom(assetsData, 1, timestamp, portfolioAssets,
                     [prices |-> <<>>, portfolioValue |-> R(0)])
    IN ChartDataPoint(timestamp, r.prices,
                      PortfolioValueField(portfolioAssets, r.portfolioValue))

\* combineChartData (the parameter assets is not read).
combineChartData(assetsData, assets, portfolioAssets) ==
    IF Len(assetsData) = 0 \/ Len(assetsData[1].prices) = 0 THEN <<>>
    ELSE [k \in 1..Len(assetsData[1].prices) |->
            RowAt(assetsData, assetsData[1].prices[k][1], portfolioAssets)]

\* The total of the portfolio whose assets are passed to combineChartData.
ChartTotal == R(10000)

\* The optional portfolio assets: undefined, or the list createPortfolioAssets
\* makes of a selection (not always the one charted) and the allocations.
OptionalPortfolioAssets ==
    {Undefined} \cup
        {<<createPortfolioAssets([k \in DOMAIN pl |-> CryptoAsset(pl[k])], al, ChartTotal)>> :
            pl \in Selections, al \in AllocationRecords}

\* The Dashboard's call: one series per selected asset, the selected assets'
\* data and, optionally, the portfolio assets.
CombineInit ==
    /\ ServiceInit
    /\ \E l \in Selections, pa \in OptionalPortfolioAssets :
         \E series \in [DOMAIN l -> PriceSeries] :
            args = <<[fn |-> "combineChartData",
                      assetsData |-> [k \in DOMAIN l |->
                                         [id |-> l[k], prices |-> series[k]]],
                      assets |-> [k \in DOMAIN l |-> CryptoAsset(l[k])],
                      portfolioAssets |-> pa]>>
    /\ out = NoOut
    /\ dashboard = DashboardAtMount

CombineChartData ==
    /\ UNCHANGED dashboard
    /\ out = NoOut
    /\ Arg.fn = "combineChartData"
    /\ out' = <<combineChartData(Arg.assetsData, Arg.assets, Arg.portfolioAssets)>>
    /\ UNCHANGED args
    /\ UNCHANGED serviceVars

CombineNext == CombineChartData

CombineSpec == CombineInit /\ [][CombineNext]_vars

\* ---------------------------------------------------------------- Dashboard
\* The chart effect of the Dashboard.  One asset is selected, so a run of
\* loadChartData awaits one getPriceHistory call; its assets query has
\* resolved, so the early return for missing data is not taken.
SelectedAsset == "bitcoin"

\* The time ranges the user switches between.
DashboardRanges == {"7D", "30D"}

DashboardAllocations == [a \in {SelectedAsset} |-> R(100)]

\* createPortfolioAssets(assetsData, allocations, totalPortfolioValue)
DashboardPortfolioAssets ==
    createPortfolioAssets(<<CryptoAsset(SelectedAsset)>>, DashboardAllocations,
                          ChartTotal)

\* cryptoApi.getPriceHistory(assetId, days)
PriceHistoryRequest == [op |-> "getPriceHistory", ids |-> <<>>]

\* The prices of a history of `days` days: its first and its last point,
\* with timestamps counted in days.
PriceHistory(days) == <<<<0, R(100)>>, <<days, R(110)>>>>

\* The rows a run of loadChartData passes to setChartData.
CombinedData(days) ==
    combineChartData(<<[id |-> SelectedAsset, prices |-> PriceHistory(days)]>>,
                     <<CryptoAsset(SelectedAsset)>>, <<DashboardPortfolioAssets>>)

\* setChartData(combinedData), called by the run awaiting call c.
SetChartData(c, rows) ==
    [dashboard EXCEPT !.chartData = rows, !.shown = <<c>>]

\* The effect runs (timeRange was set to range, or the assets query gave a
\* new assetsData): setIsLoadingChart(true), days from getTimeRangeDays,
\* and the getPriceHistory call starts.  Nothing is done about a run that
\* is still in flight.
LoadChartData(c, range) ==
    /\ dashboard.load[c] = NoLoad
    /\ StartCall(c, PriceHistoryRequest)
    /\ dashboard' = [dashboard EXCEPT
                        !.timeRange = range,
                        !.isLoadingChart = TRUE,
                        !.load[c] = <<[timeRange |-> range,
                                       days |-> getTimeRangeDays(range)]>>,
                        !.newest = <<c>>]

\* Promise.all resolves: combineChartData, setChartData, and the finally
\* clause.
LoadResolves(c) ==
    /\ dashboard.load[c] # NoLoad
    /\ pc[c] = "returned"
    /\ CollectCall(c)
    /\ dashboard' = [SetChartData(c, CombinedData(dashboard.load[c][1].days))
                        EXCEPT !.isLoadingChart = FALSE, !.load[c] = NoLoad]

\* Promise.all rejects: the catch clause logs and toasts, chartData is
\* left as it is, and the finally clause runs.
LoadRejects(c) ==
    /\ dashboard.load[c] # NoLoad
    /\ pc[c] = "thrown"
    /\ CollectCall(c)
    /\ dashboard' = [dashboard EXCEPT !.isLoadingChart = FALSE, !.load[c] = NoLoad]

DashboardNext ==
    \/ \E c \in Calls, range \in DashboardRanges : LoadChartData(c, range)
    \/ \E c \in Calls : ProviderReturns(c)
    \/ \E c \in Calls : ProviderThrows(c)
    \/ \E c \in Calls : DelayElapsed(c)
    \/ \E c \in Calls : LoadResolves(c)
    \/ \E c \in Calls : LoadRejects(c)
    \/ Tick

DashboardSpec == Init /\ [][DashboardNext]_vars

\* ------------------------------------------------------------------ claims
\* The providers a call invoked before the one it is at.
TriedBefore(c) == {availableProviders[c][k] : k \in 1..(idx[c] - 1)}

\* The step in which call c starts.
Starts(c) == pc[c] = "idle" /\ pc'[c] # "idle"

\* C1, as stated: in the step in which a call returns, the value is the
\* result of the provider that succeeded, every provider tried before it is
\* in the failed set and the succeeding provider is not.
C1_FirstSuccessWins ==
    [][\A c \in Calls :
        (pc[c] = "calling" /\ pc'[c] = "returned") =>
            /\ result'[c] = ProviderResult(Current(c), request[c].op, request[c].ids)
            /\ TriedBefore(c) \subseteq failedProviders'
            /\ Current(c) \notin failedProviders']_vars

\* C1, amended: the same holds of a call during which no other failover call
\* ran, from its return until another call starts.
C1_FirstSuccessWinsAlone ==
    \A c \in Calls :
        (pc[c] = "returned" /\ alone[c]) =>
            /\ result[c] = ProviderResult(Current(c), request[c].op, request[c].ids)
            /\ TriedBefore(c) \subseteq failedProviders
            /\ Current(c) \notin failedProviders

\* C1 witness: a call that ran alone returned from its third candidate after
\* two candidates threw.
C1_Witness ==
    \E c \in Calls :
        /\ pc[c] = "returned" /\ alone[c] /\ idx[c] = 3
        /\ result[c].from = "CoinMarketCap"
        /\ failedProviders = {"CoinGecko", "CryptoCompare"}

\* The error the last candidate of a call throws.
LastCandidateError(c) ==
    ProviderError(availableProviders[c][Len(availableProviders[c])],
                  request[c].op, request[c].ids)

C3_AllMarkedOnFailure ==
    \A c \in Calls :
        (pc[c] = "thrown" /\ alone[c]) => failedProviders = ProviderNames

\* C3 witness: a call that began with a partly filled failed set (and no
\* time-based reset) failed.
C3_Witness ==
    \E c \in Calls :
        /\ pc[c] = "thrown" /\ alone[c]
        /\ flagsAtStart[c] = {"CoinGecko"}
        /\ availableProviders[c] = <<"CryptoCompare", "CoinMarketCap">>

\* C4: a call that starts more than 5 minutes after a provider was flagged
\* has that provider as a candidate at its priority position, unflagged.
C4_TimeBasedRecovery ==
    [][\A c \in Calls : Starts(c) =>
        \A k \in 1..Len(providers) :
            (providers[k] \in failedProviders
                /\ now - markedAt[providers[k]] > ResetIntervalMs) =>
                    /\ Len(availableProviders'[c]) >= k
                    /\ availableProviders'[c][k] = providers[k]
                    /\ providers[k] \notin failedProviders']_vars

\* C4 witness: a call that began with CoinGecko flagged, and not all
\* providers flagged, is invoking CoinGecko: the flag was cleared by time.
C4_Witness ==
    \E c \in Calls :
        /\ pc[c] = "calling" /\ alone[c]
        /\ flagsAtStart[c] = {"CoinGecko"}
        /\ Current(c) = "CoinGecko"
        /\ lastResetTime = now

\* C5: every call has a candidate and invokes one; a call that begins with
\* all providers flagged has the full list, in priority order.
C5_NeverUnavailable ==
    \A c \in Calls :
        pc[c] # "idle" =>
            /\ Len(availableProviders[c]) > 0
            /\ idx[c] >= 1
            /\ flagsAtStart[c] = ProviderNames => availableProviders[c] = providers

\* C5 witness: a call that began with all providers flagged, inside the reset
\* interval, has reached the third provider of the full list.
C5_Witness ==
    \E c \in Calls :
        /\ pc[c] = "calling" /\ flagsAtStart[c] = ProviderNames
        /\ lastResetTime = 0 /\ idx[c] = 3 /\ Current(c) = "CoinMarketCap"

\* C6: under the scheduling of FairSpec every call that has started completes,
\* and a completed call has exactly one outcome: a value or an error.
C6_EveryCallCompletes ==
    /\ \A c \in Calls : (pc[c] # "idle") ~> Done(c)
    /\ [](\A c \in Calls :
            /\ pc[c] = "returned" => (result[c] # NoResult /\ thrown[c] = NoError)
            /\ pc[c] = "thrown" => (thrown[c] # NoError /\ result[c] = NoResult)
            /\ InFlight(c) => (result[c] = NoResult /\ thrown[c] = NoError))

\* C6 witness: a call has completed with an error after going through all
\* three providers, another with a value.
C6_Witness ==
    \E c, d \in Calls :
        /\ pc[c] = "thrown" /\ idx[c] = 3
        /\ pc[d] = "returned"

\* A provider certain to serve the request: its method resolves whenever it
\* is invoked.
Serves(p, r) == Outcomes(p, r.op, r.ids) = {"ok"}

\* C7: a call fails only when no provider of the whole list can serve the
\* operation; here, never while some provider's method is certain to resolve.
C7_BestEffortSuccess ==
    \A c \in Calls :
        pc[c] = "thrown" => \A p \in ProviderNames : ~Serves(p, request[c])

EmptyIdsRequest == [op |-> "getAssetsByIds", ids |-> <<>>]

\* C8: getAssetsByIds with no ids performs no network request and resolves
\* to an empty list, whatever the failed set is.
C8_EmptyIdsResolveEmpty ==
    \A c \in Calls :
        request[c] = EmptyIdsRequest =>
            /\ \A p \in Range(Tried(c)) : ~Fetches(p, request[c].op, request[c].ids)
            /\ Done(c) => (pc[c] = "returned" /\ result[c].data = <<>>)

\* C9: whatever the operation of a call, a provider that is still flagged
\* once the call has started (flagged by a call of whatever operation) is not
\* among the call's candidates.
C9_FlagIsOperationAgnostic ==
    [][\A c \in Calls : Starts(c) =>
        \A p \in failedProviders' : p \notin Range(availableProviders'[c])]_vars

\* C9 witness: a searchCryptos call that began with no flags is waiting after
\* CoinGecko threw; a getTopCryptos call that began later, with CoinGecko
\* flagged and no reset since, has skipped CoinGecko.
C9_Witness ==
    \E c, d \in Calls :
        /\ request[d].op = "searchCryptos" /\ pc[d] = "waiting"
        /\ flagsAtStart[d] = {} /\ Current(d) = "CoinGecko"
        /\ request[c].op = "getTopCryptos" /\ pc[c] = "calling" /\ idx[c] = 1
        /\ flagsAtStart[c] = {"CoinGecko"} /\ lastResetTime = 0
        /\ availableProviders[c] = <<"CryptoCompare", "CoinMarketCap">>

\* A provider that refuses the operation: its method throws without a fetch.
Refuses(p, r) == Outcomes(p, r.op, r.ids) = {"throw"}

\* C10: in the step in which a provider refuses an operation it does not
\* implement, the failed set is left alone and the call does not wait: it goes
\* on to the next provider, or ends, at once.
C10_RefusalIsNotFailure ==
    [][\A c \in Calls :
        (pc[c] = "calling" /\ pc'[c] # "calling" /\ Refuses(Current(c), request[c])) =>
            /\ failedProviders' = failedProviders
            /\ pc'[c] # "waiting"]_vars

\* C11: getTimeRangeDays gives 1 for 1D, 7 for 7D, 30 for 30D, 90 for 90D, 365
\* for 1Y and 7 for any other label, and applying it leaves the failed set
\* and the reset timer as they were.
C11_TimeRangeDays ==
    /\ [](out # NoOut =>
            /\ Arg.range = "1D" => out[1] = 1
            /\ Arg.range = "7D" => out[1] = 7
            /\ Arg.range = "30D" => out[1] = 30
            /\ Arg.range = "90D" => out[1] = 90
            /\ Arg.range = "1Y" => out[1] = 365
            /\ Arg.range \notin TimeRangeLabels => out[1] = 7)
    /\ [][out' # out =>
            /\ failedProviders' = failedProviders
            /\ lastResetTime' = lastResetTime]_vars

\* C11 witness: 1Y has been mapped to 365 while CoinGecko is flagged.
C11_Witness ==
    /\ out = <<365>> /\ Arg.range = "1Y"
    /\ failedProviders = {"CoinGecko"}


\* C12: on an empty asset list calculatePortfolioMetrics returns totalValue,
\* totalReturn, totalReturnPercentage and volatility all 0, whatever the
\* total, the chart data and the time range.
C12_EmptyAssetsAllZero ==
    (out # NoOut /\ Len(Arg.assets) = 0) =>
        /\ out[1].totalValue = R(0)
        /\ out[1].totalReturn = R(0)
        /\ out[1].totalReturnPercentage = R(0)
        /\ out[1].volatility = R(0)

\* C12 witness: the empty list was given with a total of 10000, a chart of
\* two rows and a time range.
C12_Witness ==
    /\ out # NoOut /\ Len(Arg.assets) = 0
    /\ Arg.totalPortfolioValue = R(10000)
    /\ Arg.timeRange # Undefined
    /\ Arg.chartData # Undefined /\ Len(Arg.chartData[1]) = 2


\* The sum of f[k] over the indices k in S.
RECURSIVE RSum(_, _)
RSum(f, S) ==
    IF S = {} THEN R(0)
    ELSE LET k == CHOOSE x \in S : TRUE IN RAdd(f[k], RSum(f, S \ {k}))

\* A series with at least two time points is supplied.
SeriesSupplied(chartData) == chartData # Undefined /\ Len(chartData[1]) >= 2

\* The assets (by position) that have a price above zero in the first row.
PricedAtStart(assets, chartData) ==
    {k \in DOMAIN assets :
        /\ assets[k].id \in DOMAIN chartData[1][1].prices
        /\ RGt(chartData[1][1].prices[assets[k].id], R(0))}

\* The return of asset k over the series: last price minus first price, over
\* first price, times 100 (a price missing from the last row counts as 0).
SeriesReturn(assets, chartData, k) ==
    LET first == chartData[1][1].prices[assets[k].id]
        lastRow == chartData[1][Len(chartData[1])].prices
        last == IF assets[k].id \in DOMAIN lastRow THEN lastRow[assets[k].id] ELSE R(0)
    IN RMul(RDiv(RSub(last, first), first), R(100))

\* The returns a calculation uses, by asset position: from the series when
\* fromSeries, the 24-hour changes otherwise.
ReturnsUsed(assets, chartData, fromSeries) ==
    IF fromSeries
    THEN [k \in PricedAtStart(assets, chartData) |-> SeriesReturn(assets, chartData, k)]
    ELSE [k \in DOMAIN assets |-> assets[k].price_change_percentage_24h]

\* The sum of return times allocation/100 over the returns used.
WeightedSum(assets, used) ==
    RSum([k \in DOMAIN used |-> RMul(used[k], RDiv(assets[k].allocation, R(100)))],
         DOMAIN used)

\* The mean squared deviation of the returns used from their mean (0 for no
\* returns), as mean of squares minus square of mean.
MeanSquaredDeviation(used) ==
    IF DOMAIN used = {} THEN R(0)
    ELSE LET cnt == R(Cardinality(DOMAIN used))
             mean == RDiv(RSum(used, DOMAIN used), cnt)
             meanSq == RDiv(RSum([k \in DOMAIN used |-> RMul(used[k], used[k])],
                                 DOMAIN used), cnt)
         IN RSub(meanSq, RMul(mean, mean))

\* C13: whether the returns come from the series depends on the series only:
\* with a series of two rows or more the weighted return and the volatility
\* are those of the series returns, otherwise those of the 24-hour changes.
C13_ReturnSourceBySeriesOnly ==
    (out # NoOut /\ Len(Arg.assets) > 0) =>
        LET used == ReturnsUsed(Arg.assets, Arg.chartData, SeriesSupplied(Arg.chartData))
        IN /\ out[1].totalReturnPercentage = WeightedSum(Arg.assets, used)
           /\ Square(out[1].volatility) = MeanSquaredDeviation(used)


\* The assets that have a price above zero in the first row, in list order.
KeptAssets(assets, chartData) ==
    SelectSeq(assets, LAMBDA a :
        /\ a.id \in DOMAIN chartData[1][1].prices
        /\ RGt(chartData[1][1].prices[a.id], R(0)))

\* C14: in the historical branch an asset whose first-row price is zero or
\* missing is skipped: the result is that of the list without the skipped
\* assets, no field is the result of a division by zero, and when every asset
\* is skipped totalReturn, totalReturnPercentage and volatility are 0.
C14_ZeroStartPriceSkipped ==
    (out # NoOut /\ Len(Arg.assets) > 0 /\ UseHistory(Arg.chartData, Arg.timeRange)) =>
        LET kept == KeptAssets(Arg.assets, Arg.chartData)
        IN /\ IsFinite(out[1].totalReturn)
           /\ IsFinite(out[1].totalReturnPercentage)
           /\ IsFinite(out[1].volatility)
           /\ IF Len(kept) = 0
              THEN /\ out[1].totalReturn = R(0)
                   /\ out[1].totalReturnPercentage = R(0)
                   /\ out[1].volatility = R(0)
              ELSE out[1] = calculatePortfolioMetrics(kept, Arg.totalPortfolioValue,
                                                      Arg.chartData, Arg.timeRange)

\* C14 witness: of two assets the first has price 0 in the first row and is
\* skipped, the second has a return other than 0.
C14_Witness ==
    /\ out # NoOut /\ Len(Arg.assets) = 2
    /\ UseHistory(Arg.chartData, Arg.timeRange)
    /\ PricedAtStart(Arg.assets, Arg.chartData) = {2}
    /\ Arg.assets[1].id \in DOMAIN Arg.chartData[1][1].prices
    /\ out[1].totalReturnPercentage # R(0)

\* C14 witness, second case: both assets are missing from the first row and
\* the result is all zero but the total.
C14_WitnessAllSkipped ==
    /\ out # NoOut /\ Len(Arg.assets) = 2
    /\ UseHistory(Arg.chartData, Arg.timeRange)
    /\ DOMAIN Arg.chartData[1][1].prices = {}
    /\ out[1].volatility = R(0)


\* The asset list with the allocation of asset j multiplied by factor.
ScaleAllocation(assets, j, factor) ==
    [assets EXCEPT ![j].allocation = RMul(R(factor), @)]

\* C15: totalReturnPercentage is the sum over the assets of return times
\* allocation/100, allocations taken as they are; multiplying the allocation
\* of one asset by 2 or 3 adds once or twice that asset's contribution to the
\* sum and leaves the volatility as it was.
C15_LinearInAllocation ==
    (out # NoOut /\ Len(Arg.assets) > 0) =>
        LET used == ReturnsUsed(Arg.assets, Arg.chartData,
                                UseHistory(Arg.chartData, Arg.timeRange))
            contribution(j) ==
                IF j \in DOMAIN used
                THEN RMul(used[j], RDiv(Arg.assets[j].allocation, R(100)))
                ELSE R(0)
        IN /\ out[1].totalReturnPercentage =
                  RSum([j \in DOMAIN Arg.assets |-> contribution(j)], DOMAIN Arg.assets)
           /\ \A j \in DOMAIN Arg.assets, factor \in {2, 3} :
                LET scaled == calculatePortfolioMetrics(
                                  ScaleAllocation(Arg.assets, j, factor),
                                  Arg.totalPortfolioValue, Arg.chartData, Arg.timeRange)
                IN /\ scaled.totalReturnPercentage =
                          RAdd(out[1].totalReturnPercentage,
                               RMul(R(factor - 1), contribution(j)))
                   /\ scaled.volatility = out[1].volatility

\* C15 witness: two assets with allocations 100 and 50 (not summing to 100)
\* and returns from the series, with a weighted return other than 0.
C15_Witness ==
    /\ out # NoOut /\ Len(Arg.assets) = 2
    /\ UseHistory(Arg.chartData, Arg.timeRange)
    /\ PricedAtStart(Arg.assets, Arg.chartData) = {1, 2}
    /\ Arg.assets[1].allocation = R(100) /\ Arg.assets[2].allocation = R(50)
    /\ out[1].totalReturnPercentage # R(0)
    /\ out[1].volatility # R(0)


\* C16: the volatility is the population standard deviation of the returns
\* used, whatever the allocations: its square is the mean squared deviation
\* of those returns from their mean (the divisor is their number n), and for
\* the returns +10 and -10 it is 10.
C16_PopulationStdDev ==
    (out # NoOut /\ Len(Arg.assets) > 0) =>
        LET used == ReturnsUsed(Arg.assets, Arg.chartData,
                                UseHistory(Arg.chartData, Arg.timeRange))
        IN /\ Square(out[1].volatility) = MeanSquaredDeviation(used)
           /\ ~RGt(R(0), out[1].volatility)
           /\ (Cardinality(DOMAIN used) = 2 /\ {used[k] : k \in DOMAIN used} = {R(10), R(0 - 10)})
                  => out[1].volatility = R(10)

\* C16 witness: two assets with unequal allocations whose returns are +10 and
\* -10 have volatility 10.
C16_Witness ==
    /\ out # NoOut /\ Len(Arg.assets) = 2
    /\ Arg.assets[1].allocation # Arg.assets[2].allocation
    /\ ~UseHistory(Arg.chartData, Arg.timeRange)
    /\ Arg.assets[1].price_change_percentage_24h = R(10)
    /\ Arg.assets[2].price_change_percentage_24h = R(0 - 10)
    /\ out[1].volatility = R(10)


\* The example of the specification: bitcoin and ethereum at allocation 50
\* each, 24-hour changes +10 and -10, total 10000, no chart data.
ExampleCall ==
    /\ Len(Arg.assets) = 2
    /\ Arg.assets[1].id = "bitcoin" /\ Arg.assets[2].id = "ethereum"
    /\ Arg.assets[1].allocation = R(50) /\ Arg.assets[2].allocation = R(50)
    /\ Arg.assets[1].price_change_percentage_24h = R(10)
    /\ Arg.assets[2].price_change_percentage_24h = R(0 - 10)
    /\ Arg.totalPortfolioValue = R(10000)
    /\ Arg.chartData = Undefined

\* C17: for a non-empty asset list totalValue is the total given and
\* totalReturn is totalReturnPercentage/100 times that total; the example call
\* gives totalReturnPercentage 0, totalReturn 0 and volatility 10.
C17_TotalsAndExample ==
    (out # NoOut /\ Len(Arg.assets) > 0) =>
        /\ out[1].totalValue = Arg.totalPortfolioValue
        /\ out[1].totalReturn =
               RDiv(RMul(out[1].totalReturnPercentage, Arg.totalPortfolioValue), R(100))
        /\ ExampleCall =>
               /\ out[1].totalReturnPercentage = R(0)
               /\ out[1].totalReturn = R(0)
               /\ out[1].volatility = R(10)

\* C17 witness: a call with a total of 10000 returned a totalReturn other
\* than 0.
C17_Witness ==
    /\ out # NoOut /\ Len(Arg.assets) > 0
    /\ Arg.totalPortfolioValue = R(10000)
    /\ out[1].totalValue = R(10000)
    /\ out[1].totalReturn # R(0)

\* C17 witness, the example: the example call has returned.
C17_WitnessExample == out # NoOut /\ ExampleCall /\ out[1].volatility = R(10)


\* The timestamps of the first series, each once, in order of first
\* appearance.
RECURSIVE DistinctFrom(_, _, _)
DistinctFrom(prices, k, acc) ==
    IF k > Len(prices) THEN acc
    ELSE DistinctFrom(prices, k + 1,
            IF prices[k][1] \in Range(acc) THEN acc ELSE Append(acc, prices[k][1]))

\* C18: combineChartData returns one row per distinct timestamp of the first
\* series, in that series' order (no repeated rows for a repeated timestamp),
\* and no rows when there is no series or the first series is empty.
C18_RowPerDistinctTimestamp ==
    out # NoOut =>
        IF Len(Arg.assetsData) = 0 \/ Len(Arg.assetsData[1].prices) = 0
        THEN out[1] = <<>>
        ELSE [k \in DOMAIN out[1] |-> out[1][k].timestamp]
                 = DistinctFrom(Arg.assetsData[1].prices, 1, <<>>)


\* The entries of a series that have the timestamp.
EntriesAt(prices, timestamp) == {e \in DOMAIN prices : prices[e][1] = timestamp}

\* The example: A has entries at t1 and t2, B at t1 only.
ExampleSeries ==
    /\ Len(Arg.assetsData) = 2
    /\ [k \in DOMAIN Arg.assetsData[1].prices |-> Arg.assetsData[1].prices[k][1]] = <<1, 2>>
    /\ [k \in DOMAIN Arg.assetsData[2].prices |-> Arg.assetsData[2].prices[k][1]] = <<1>>

\* C19: a row has a field for an asset exactly when the asset's series has an
\* entry at the row's timestamp, and the field holds the price of such an
\* entry; every row's timestamp is one of the first series (a timestamp of
\* another series only makes no row); in the example the result has 2 rows
\* and the row of t2 has no field for B.
C19_FieldIffExactTimestamp ==
    out # NoOut =>
        /\ \A k \in DOMAIN out[1] :
            /\ EntriesAt(Arg.assetsData[1].prices, out[1][k].timestamp) # {}
            /\ DOMAIN out[1][k].prices \subseteq
                   {Arg.assetsData[m].id : m \in DOMAIN Arg.assetsData}
            /\ \A m \in DOMAIN Arg.assetsData :
                LET series == Arg.assetsData[m].prices
                    at == EntriesAt(series, out[1][k].timestamp)
                IN /\ (Arg.assetsData[m].id \in DOMAIN out[1][k].prices) <=> (at # {})
                   /\ at # {} =>
                        out[1][k].prices[Arg.assetsData[m].id] \in {series[e][2] : e \in at}
        /\ ExampleSeries =>
            /\ Len(out[1]) = 2
            /\ out[1][2].timestamp = 2
            /\ Arg.assetsData[2].id \notin DOMAIN out[1][2].prices

\* C19 witness: the example call has returned two rows; the first row has a
\* field for both assets, with different prices.
C19_Witness ==
    /\ out # NoOut /\ ExampleSeries /\ Len(out[1]) = 2
    /\ DOMAIN out[1][1].prices = {"bitcoin", "ethereum"}
    /\ out[1][1].prices["bitcoin"] # out[1][1].prices["ethereum"]
    /\ DOMAIN out[1][2].prices = {Arg.assetsData[1].id}


\* The assets of a row (by id) that have an allocation above 0 in the
\* portfolio assets.
Allocated(row, portfolioAssets) ==
    {id \in DOMAIN row.prices :
        /\ FindPortfolioAsset(portfolioAssets, id) # 0
        /\ RGt(portfolioAssets[FindPortfolioAsset(portfolioAssets, id)].allocation, R(0))}

\* The sum over those assets of price times allocation/100 times
\* (asset value / asset current price).
ShareValue(row, portfolioAssets) ==
    RSum([id \in Allocated(row, portfolioAssets) |->
            LET pa == portfolioAssets[FindPortfolioAsset(portfolioAssets, id)]
            IN RMul(RMul(row.prices[id], RDiv(pa.allocation, R(100))),
                    RDiv(pa.value, pa.current_price))],
         Allocated(row, portfolioAssets))

\* C20, as stated: with portfolio assets supplied every row carries a
\* portfolioValue, equal to the sum over the allocated assets of the row.
C20_EveryRowHasPortfolioValue ==
    (out # NoOut /\ Arg.portfolioAssets # Undefined) =>
        \A k \in DOMAIN out[1] :
            out[1][k].portfolioValue = <<ShareValue(out[1][k], Arg.portfolioAssets[1])>>

\* C20, amended: with portfolio assets supplied a row carries a
\* portfolioValue exactly when that sum is above 0, and the field equals the
\* sum; without portfolio assets no row carries one.
C20_PortfolioValueWhenPositive ==
    out # NoOut =>
        \A k \in DOMAIN out[1] :
            IF Arg.portfolioAssets # Undefined
                  /\ RGt(ShareValue(out[1][k], Arg.portfolioAssets[1]), R(0))
            THEN out[1][k].portfolioValue = <<ShareValue(out[1][k], Arg.portfolioAssets[1])>>
            ELSE out[1][k].portfolioValue = <<>>

\* C20 witness: of two rows the first carries a portfolioValue to which one
\* of its two assets, without allocation, adds nothing; the second row has a
\* field for an allocated asset at price 0 and carries no portfolioValue.
C20_Witness ==
    /\ out # NoOut /\ Arg.portfolioAssets # Undefined /\ Len(out[1]) = 2
    /\ Cardinality(DOMAIN out[1][1].prices) = 2
    /\ Cardinality(Allocated(out[1][1], Arg.portfolioAssets[1])) = 1
    /\ Len(out[1][1].portfolioValue) = 1
    /\ Allocated(out[1][2], Arg.portfolioAssets[1]) # {}
    /\ out[1][2].portfolioValue = <<>>


\* C21: a superseded chart load has its result ignored: when a run of
\* loadChartData that is no longer the newest one resolves after the newest
\* run's rows were shown, chartData keeps the newest run's rows.
C21_SupersededLoadIgnored ==
    [][\A c \in Calls :
          (/\ dashboard.load[c] # NoLoad
           /\ dashboard'.load[c] = NoLoad
           /\ pc[c] = "returned"
           /\ dashboard.newest # <<c>>
           /\ dashboard.shown = dashboard.newest)
          => dashboard'.chartData = dashboard.chartData]_vars

\* The failed set a starting call filters by: the flags after the
\* time-based reset check, read from the state before the call starts.
FlagsAfterResetCheck ==
    IF now - lastResetTime > ResetIntervalMs THEN {} ELSE failedProviders

\* The place of a provider in the priority order CoinGecko, CryptoCompare,
\* CoinMarketCap.
Priority(p) ==
    CASE p = "CoinGecko" -> 1
      [] p = "CryptoCompare" -> 2
      [] p = "CoinMarketCap" -> 3

InPriorityOrder(s) ==
    \A i, j \in DOMAIN s : i < j => Priority(s[i]) < Priority(s[j])

\* C22: the candidates of a call are exactly the providers not in the failed
\* set when it starts (after the time-based reset check; all of them when all
\* were marked failed), in the order CoinGecko, CryptoCompare, CoinMarketCap;
\* the call invokes them in that order, from the first on, and never changes
\* the list.
C22_CandidatesInPriorityOrder ==
    [][\A c \in Calls :
          /\ Starts(c) =>
                /\ Range(availableProviders'[c]) =
                       IF FlagsAfterResetCheck = ProviderNames THEN ProviderNames
                       ELSE ProviderNames \ FlagsAfterResetCheck
                /\ InPriorityOrder(availableProviders'[c])
                /\ idx'[c] = 1
          /\ (pc[c] # "idle" /\ pc'[c] # "idle") =>
                /\ availableProviders'[c] = availableProviders[c]
                /\ idx'[c] \in {idx[c], idx[c] + 1}]_vars

\* A call that started with CoinGecko marked failed, skipped it and has gone
\* on from CryptoCompare to CoinMarketCap.
C22_Witness ==
    \E c \in Calls :
        /\ pc[c] = "calling"
        /\ flagsAtStart[c] = {"CoinGecko"}
        /\ availableProviders[c] = <<"CryptoCompare", "CoinMarketCap">>
        /\ idx[c] = 2

\* The providers the call has invoked are all different.
InvokedOnce(c) ==
    \A i, j \in 1..idx[c] :
        i # j => availableProviders[c][i] # availableProviders[c][j]

\* C23: within one call the iteration is sequential and non-retrying: the
\* call goes on to a provider only from the wait that follows the failure of
\* the previous one, that wait was set to end 100 ms after the failure and
\* has ended, the provider it goes on to is the next one, and no provider is
\* invoked twice.  (At the last instant of the clock, which stands for all
\* later ones, the 100 ms end there.)
C23_SequentialNoRetry ==
    [][\A c \in Calls :
          /\ (pc[c] = "calling" /\ pc'[c] = "waiting") =>
                /\ timerAt'[c] = Min2(now + 100, MaxTime)
                /\ lastError'[c].from = Current(c)
          /\ (pc[c] = "waiting" /\ pc'[c] = "waiting") => timerAt'[c] = timerAt[c]
          /\ (pc'[c] = "calling" /\ pc[c] # "calling") =>
                \/ Starts(c)
                \/ /\ pc[c] = "waiting"
                   /\ now >= timerAt[c]
                   /\ idx'[c] = idx[c] + 1
                   /\ lastError[c].from = Current(c)
          /\ (pc[c] = "calling" /\ pc'[c] = "calling") => idx'[c] = idx[c]
          /\ InvokedOnce(c)']_vars

\* A call invoking its second candidate 100 ms after its first one threw.
C23_Witness ==
    \E c \in Calls :
        /\ pc[c] = "calling"
        /\ idx[c] = 2
        /\ lastError[c].from = availableProviders[c][1]
        /\ now = 100

\* C24: a successful provider call ends the call at once and changes
\* nothing: the step in which the provider resolves settles the call with
\* that provider's result and leaves the failed set and the reset timestamp
\* as they were, and a call that has returned invokes no further provider.
C24_SuccessChangesNothing ==
    [][\A c \in Calls :
          /\ (pc[c] = "calling" /\ pc'[c] = "returned") =>
                /\ result'[c].from = Current(c)
                /\ failedProviders' = failedProviders
                /\ lastResetTime' = lastResetTime
                /\ availableProviders'[c] = availableProviders[c]
                /\ idx'[c] = idx[c]
          /\ pc[c] = "returned" => pc'[c] \in {"returned", "idle"}
          /\ (pc[c] = "returned" /\ pc'[c] = "returned") => idx'[c] = idx[c]]_vars

\* A call that skipped the flagged CoinGecko, got its result from
\* CryptoCompare with CoinMarketCap still to come, and left the flag set.
C24_Witness ==
    \E c \in Calls :
        /\ pc[c] = "returned"
        /\ result[c].from = "CryptoCompare"
        /\ availableProviders[c] = <<"CryptoCompare", "CoinMarketCap">>
        /\ idx[c] = 1
        /\ "CoinGecko" \in failedProviders

\* C25: failure flags are only ever cleared collectively: a step that
\* removes a provider from the failed set empties the set, is the start of a
\* call, and finds either more than 5 minutes passed since the last reset or
\* all providers marked failed; every other step keeps every flag; the failed
\* set holds provider names only.
C25_FlagsClearedCollectively ==
    [][/\ (failedProviders \ failedProviders' # {}) =>
              /\ failedProviders' = {}
              /\ \E c \in Calls : Starts(c)
              /\ \/ now - lastResetTime > 300000
                 \/ failedProviders = {"CoinGecko", "CryptoCompare", "CoinMarketCap"}
       /\ (failedProviders \ failedProviders' = {}) =>
              failedProviders \subseteq failedProviders'
       /\ failedProviders' \subseteq {"CoinGecko", "CryptoCompare", "CoinMarketCap"}]_vars

\* A call that has just started with all three providers marked failed, less
\* than 5 minutes after the last reset, and cleared the flags.
C25_Witness ==
    \E c \in Calls :
        /\ pc[c] = "calling"
        /\ idx[c] = 1
        /\ flagsAtStart[c] = ProviderNames
        /\ failedProviders = {}
        /\ lastResetTime = 0

\* C26: at the start of a call the flags are cleared and the reset timestamp
\* is set to the current time exactly when the current time minus the reset
\* timestamp is more than 300000 ms; at 300000 ms or less the timestamp stays
\* and the flags stay (but for the clear of an all-failed set); no other step
\* changes the reset timestamp, and it never decreases.
C26_ResetStrictlyAfterFiveMinutes ==
    [][/\ \A c \in Calls : Starts(c) =>
              IF now - lastResetTime > 300000
              THEN /\ failedProviders' = {}
                   /\ lastResetTime' = now
              ELSE /\ lastResetTime' = lastResetTime
                   /\ failedProviders' =
                          IF failedProviders = ProviderNames THEN {}
                          ELSE failedProviders
       /\ (\A c \in Calls : ~Starts(c)) => lastResetTime' = lastResetTime
       /\ lastResetTime' >= lastResetTime]_vars

\* A call started exactly 5 minutes after the last reset, right after
\* CoinGecko was marked failed: flag and timestamp are as they were.
C26_Witness ==
    \E c \in Calls :
        /\ pc[c] = "calling"
        /\ idx[c] = 1
        /\ now = 300000
        /\ lastResetTime = 0
        /\ markedAt["CoinGecko"] = 300000
        /\ flagsAtStart[c] = {"CoinGecko"}
        /\ failedProviders = {"CoinGecko"}

\* The step in which call c invokes a provider: its first candidate as it
\* starts, the next one after a wait.
Invokes(c) ==
    /\ pc'[c] = "calling"
    /\ Starts(c) \/ idx'[c] # idx[c]

\* C27: with calls interleaved, no call invokes a provider at a moment when
\* that provider is in the failed set, except a call that started with every
\* provider marked failed.
C27_NeverInvokesFlagged ==
    [][\A c \in Calls :
          Invokes(c) =>
              \/ availableProviders'[c][idx'[c]] \notin failedProviders'
              \/ flagsAtStart'[c] = ProviderNames]_vars

\* C27, amended: no call invokes a provider that was in the failed set when
\* the call started (after the time-based reset check), except a call that
\* started with every provider marked failed: the candidates are fixed at
\* the start, hold no provider flagged then, and every provider invoked
\* later is one of them.
C27_SkipsFlaggedAtStart ==
    [][\A c \in Calls :
          /\ (Starts(c) /\ FlagsAfterResetCheck # ProviderNames) =>
                \A k \in DOMAIN availableProviders'[c] :
                    availableProviders'[c][k] \notin FlagsAfterResetCheck
          /\ (Invokes(c) /\ ~Starts(c)) =>
                /\ availableProviders'[c] = availableProviders[c]
                /\ idx'[c] \in DOMAIN availableProviders[c]]_vars

\* Two calls interleaved: d, which started with no flag set, has had
\* CoinGecko and CryptoCompare throw; c, which started in between with
\* CoinGecko flagged, skipped it and is invoking CryptoCompare, flagged by
\* now.
C27_Witness ==
    \E c, d \in Calls :
        /\ c # d
        /\ pc[c] = "calling"
        /\ flagsAtStart[c] = {"CoinGecko"}
        /\ availableProviders[c] = <<"CryptoCompare", "CoinMarketCap">>
        /\ idx[c] = 1
        /\ pc[d] = "waiting"
        /\ flagsAtStart[d] = {}
        /\ idx[d] = 2
        /\ failedProviders = {"CoinGecko", "CryptoCompare"}

\* The providers that have thrown in call c so far.
ThrownBy(c) ==
    IF pc[c] \in {"waiting", "thrown"} THEN Range(Tried(c)) ELSE TriedBefore(c)

\* The step in which a call other than c starts and clears the flags: by
\* the time-based reset or because all providers were marked failed.
ClearedByOther(c) ==
    \E d \in Calls \ {c} :
        /\ Starts(d)
        /\ \/ now - lastResetTime > ResetIntervalMs
           \/ failedProviders = ProviderNames

\* C28: with calls interleaved, when a call fails with all of its candidates
\* having thrown, every provider it tried is in the failed set at the moment
\* it throws.
C28_AllTriedMarkedWhenThrown ==
    [][\A c \in Calls :
          (pc[c] = "waiting" /\ pc'[c] = "thrown") =>
              Range(availableProviders[c]) \subseteq failedProviders']_vars

\* C28, amended: a provider is in the failed set from the moment it throws
\* in a call, and it stays there, up to and through the call's own failure,
\* until another call starts and clears the flags.
C28_MarksLostOnlyByClear ==
    [][\A c \in Calls :
          /\ (pc[c] = "calling" /\ pc'[c] = "waiting") =>
                Current(c) \in failedProviders'
          /\ \A p \in ThrownBy(c) :
                (p \in failedProviders /\ p \notin failedProviders') =>
                    ClearedByOther(c)
          /\ (pc[c] = "waiting" /\ pc'[c] = "thrown") =>
                failedProviders' = failedProviders]_vars

\* Two calls interleaved and no clear: c has failed with all three providers
\* in the failed set while d, which started during c with CoinGecko flagged,
\* is still in flight.
C28_Witness ==
    \E c, d \in Calls :
        /\ c # d
        /\ pc[c] = "thrown"
        /\ Len(availableProviders[c]) = 3
        /\ InFlight(d)
        /\ flagsAtStart[d] = {"CoinGecko"}
        /\ failedProviders = ProviderNames

\* The assets (by position) priced above zero in the first row whose price
\* in the last row is missing or zero.
EndsUnpriced(assets, chartData) ==
    {k \in PricedAtStart(assets, chartData) :
        LET lastRow == chartData[1][Len(chartData[1])].prices
        IN \/ assets[k].id \notin DOMAIN lastRow
           \/ lastRow[assets[k].id] = R(0)}

\* C29: in the historical branch an asset with a positive price in the first
\* row and no price (or a zero price) in the last row is not skipped: the
\* weighted return and the volatility are those of the returns of all assets
\* priced at the start, with exactly -100 for such an asset.
C29_MissingEndPriceIsTotalLoss ==
    (out # NoOut /\ Len(Arg.assets) > 0 /\ UseHistory(Arg.chartData, Arg.timeRange)) =>
        LET used == [k \in PricedAtStart(Arg.assets, Arg.chartData) |->
                        IF k \in EndsUnpriced(Arg.assets, Arg.chartData)
                        THEN R(0 - 100)
                        ELSE SeriesReturn(Arg.assets, Arg.chartData, k)]
        IN /\ out[1].totalReturnPercentage = WeightedSum(Arg.assets, used)
           /\ Square(out[1].volatility) = MeanSquaredDeviation(used)

\* C29 witness: of two assets at allocation 50, bitcoin goes from 100 to 110
\* and ethereum from 100 to no entry in the last row: the weighted return is
\* 5 - 50 and the volatility, that of the sample [10, -100], is 55.
C29_Witness ==
    /\ out # NoOut /\ Len(Arg.assets) = 2
    /\ UseHistory(Arg.chartData, Arg.timeRange)
    /\ \A k \in 1..2 : Arg.assets[k].allocation = R(50)
    /\ PricedAtStart(Arg.assets, Arg.chartData) = {1, 2}
    /\ \E k \in 1..2 :
          /\ Arg.assets[k].id = "ethereum"
          /\ EndsUnpriced(Arg.assets, Arg.chartData) = {k}
          /\ "ethereum" \notin DOMAIN Arg.chartData[1][Len(Arg.chartData[1])].prices
    /\ out[1].totalReturnPercentage = R(0 - 45)
    /\ out[1].volatility = R(55)

\* C30: the quarantine of a failed provider is measured from the shared
\* reset timestamp, not from its failure: the step that marks a provider
\* leaves the timestamp alone, and a call that starts more than 5 minutes
\* after the timestamp has every marked provider as a candidate, unmarked,
\* however recently it was marked, while a call that starts earlier skips it
\* (unless all are marked).
C30_QuarantineFromLastReset ==
    [][\A c \in Calls :
          /\ (pc[c] = "calling" /\ pc'[c] = "waiting") =>
                /\ Current(c) \in failedProviders'
                /\ lastResetTime' = lastResetTime
          /\ Starts(c) =>
                \A p \in failedProviders :
                    IF now > lastResetTime + 300000
                    THEN /\ p \in Range(availableProviders'[c])
                         /\ p \notin failedProviders'
                    ELSE failedProviders # ProviderNames =>
                            /\ p \notin Range(availableProviders'[c])
                            /\ p \in failedProviders']_vars

\* CoinGecko threw in call d at 300000 ms or later (d's 100 ms wait ends at
\* 300100), and call c, started at 300001 ms, more than 5 minutes after the
\* reset timestamp 0, cleared the flag and is invoking CoinGecko.
C30_Witness ==
    \E c, d \in Calls :
        /\ c # d
        /\ pc[d] = "waiting" /\ idx[d] = 1 /\ Current(d) = "CoinGecko"
        /\ timerAt[d] = 300100
        /\ pc[c] = "calling" /\ idx[c] = 1 /\ Current(c) = "CoinGecko"
        /\ "CoinGecko" \in flagsAtStart[c]
        /\ lastResetTime = 300001
        /\ now = 300001
        /\ failedProviders = {}

TypeOK ==
    /\ failedProviders \subseteq ProviderNames
    /\ now \in Instants
    /\ lastResetTime \in Instants
    /\ \A c \in Calls : pc[c] \in {"idle", "calling", "waiting", "returned", "thrown"}

====
